---- MODULE Spec2Model ----
(***************************************************************************)
(* Model of the JSON Schema inferencer of json-schema-generator:            *)
(*   src/src/lib.rs   generate_json_schema and its helpers (the library)    *)
(*   src/src/main.rs  the copy of the inferencer compiled into the binary   *)
(*                                                                         *)
(* A serde_json::Value is a record [kind, val]; the payload val depends on  *)
(* kind.  A Map<String, Value> that the code builds (a schema object) is a  *)
(* function from key strings to Values, so that = on Values is serde_json's *)
(* ==, which ignores the order of an object's keys.  The Map of an instance *)
(* object is the sequence of its (key, value) members in the order the code *)
(* iterates them, keys distinct.  A panic (unwrap on None, Map index of a   *)
(* missing key) is the value Panic, which every caller propagates.          *)
(***************************************************************************)
EXTENDS Integers, Sequences, FiniteSets, TLC

VARIABLES instance, schema, pc, cli_schema, cli_pc, schemas, common, idx

vars == <<instance, schema, pc, cli_schema, cli_pc, schemas, common, idx>>

(***************************************************************************)
(* Bounds of the model.                                                    *)
(***************************************************************************)
\* nodes (scalars, arrays, objects) of an instance tree
MaxNodes == 4
\* length of the schema vector handed to find_common_schema on its own
MaxSchemas == 3

(***************************************************************************)
(* serde_json::Value                                                       *)
(***************************************************************************)
Null == [kind |-> "Null", val |-> 0]

Bool(b) == [kind |-> "Bool", val |-> b]

Number(n) == [kind |-> "Number", val |-> n]

String(s) == [kind |-> "String", val |-> s]

Array(a) == [kind |-> "Array", val |-> a]

Object(m) == [kind |-> "Object", val |-> m]

\* the outcome of a panicking call
Panic == [kind |-> "Panic", val |-> 0]

\* a variable that holds no result yet
Unset == [kind |-> "Unset", val |-> 0]

IsObject(v) == v.kind = "Object"

IsArray(v) == v.kind = "Array"

\* Map::new()
EmptyMap == [k \in {} |-> Null]

\* Map::get: an Option, <<>> for None and <<v>> for Some(v)
Get(m, k) == IF k \in DOMAIN m THEN <<m[k]>> ELSE <<>>

\* Map::contains_key
ContainsKey(m, k) == k \in DOMAIN m

\* Map::insert, and v[k] = x on a Value that is an object
Insert(m, k, x) == (k :> x) @@ m

\* Map::remove
Remove(m, k) == [j \in (DOMAIN m) \ {k} |-> m[j]]

(***************************************************************************)
(* serde_json::Number: PosInt(u64), NegInt(i64) or Float(f64).  The 64 bits *)
(* of the payload are four 16-bit limbs, most significant first (for NegInt *)
(* the two's complement, for Float the IEEE 754 bits).                      *)
(***************************************************************************)
PosInt(w) == [n |-> "PosInt", bits |-> w]

NegInt(w) == [n |-> "NegInt", bits |-> w]

Float(w) == [n |-> "Float", bits |-> w]

\* i64::MAX as u64
I64Max == <<32767, 65535, 65535, 65535>>

RECURSIVE LimbsLeq(_, _, _)
\* a <= b on the limbs from position i on
LimbsLeq(a, b, i) ==
    IF i > Len(a) THEN TRUE
    ELSE IF a[i] < b[i] THEN TRUE
    ELSE IF a[i] > b[i] THEN FALSE
    ELSE LimbsLeq(a, b, i + 1)

\* Number::is_i64
is_i64(n) ==
    CASE n.n = "PosInt" -> LimbsLeq(n.bits, I64Max, 1)
      [] n.n = "NegInt" -> TRUE
      [] n.n = "Float" -> FALSE

\* Number::is_u64
is_u64(n) == n.n = "PosInt"

(***************************************************************************)
(* str::cmp: the lexicographic order of the strings' bytes.                 *)
(***************************************************************************)
Keys == {"$ref", "a", "B"}

KeyBytes(k) ==
    CASE k = "$ref" -> <<36, 114, 101, 102>>
      [] k = "a" -> <<97>>
      [] k = "B" -> <<66>>

RECURSIVE BytesLess(_, _, _)
BytesLess(x, y, i) ==
    IF i > Len(y) THEN FALSE
    ELSE IF i > Len(x) THEN TRUE
    ELSE IF x[i] < y[i] THEN TRUE
    ELSE IF x[i] > y[i] THEN FALSE
    ELSE BytesLess(x, y, i + 1)

\* a.as_str().unwrap().cmp(b.as_str().unwrap()) == Ordering::Less
StrLess(a, b) == BytesLess(KeyBytes(a.val), KeyBytes(b.val), 1)

RECURSIVE InsertSorted(_, _)
\* x put into the sorted sequence s, after the elements not greater than it
InsertSorted(s, x) ==
    IF s = <<>> THEN <<x>>
    ELSE IF StrLess(x, Head(s)) THEN <<x>> \o s
    ELSE <<Head(s)>> \o InsertSorted(Tail(s), x)

RECURSIVE SortStrings(_)
\* the stable sort of a sequence of Value::String
SortStrings(s) ==
    IF s = <<>> THEN <<>>
    ELSE InsertSorted(SortStrings(SubSeq(s, 1, Len(s) - 1)), s[Len(s)])

\* the sort left out: required stays in iteration order
sort_required_unsorted(required) == Array(required)

\* required.sort_by(|a, b| a.as_str().unwrap().cmp(b.as_str().unwrap()))
sort_required(required) ==
    IF \E i \in 1..Len(required) : required[i].kind # "String"
    THEN Panic
    ELSE Array(SortStrings(required))

(***************************************************************************)
(* The library inferencer, src/src/lib.rs.                                  *)
(***************************************************************************)
RECURSIVE generate_json_schema(_)
RECURSIVE generate_object_schema(_)
RECURSIVE generate_array_schema(_)
RECURSIVE object_loop(_, _, _)
RECURSIVE fold_loop(_, _, _)
RECURSIVE fold_loop_from_right(_, _, _)

\* json!({"oneOf": [schema1, schema2]})
OneOf(schema1, schema2) == Object("oneOf" :> Array(<<schema1, schema2>>))

\* merge_schemas with the alternatives of the fallback in the other order
merge_schemas_swapped(schema1, schema2) ==
    IF schema1 = schema2 THEN schema1
    ELSE IF IsObject(schema1) /\ IsObject(schema2)
            /\ Get(schema1.val, "type") = Get(schema2.val, "type")
    THEN IF ~ContainsKey(schema1.val, "type") THEN Panic
         ELSE IF ContainsKey(schema1.val, "properties")
                 /\ ContainsKey(schema2.val, "properties")
         THEN IF ~IsObject(schema1.val["properties"])
                 \/ ~IsObject(schema2.val["properties"])
              THEN Panic
              ELSE Object(("type" :> schema1.val["type"])
                          @@ ("properties" :>
                                Object(schema2.val["properties"].val
                                       @@ schema1.val["properties"].val)))
         ELSE Object("type" :> schema1.val["type"])
    ELSE OneOf(schema2, schema1)

\* merge_schemas with schema1's entry kept on a key collision
merge_schemas_first_wins(schema1, schema2) ==
    IF schema1 = schema2 THEN schema1
    ELSE IF IsObject(schema1) /\ IsObject(schema2)
            /\ Get(schema1.val, "type") = Get(schema2.val, "type")
    THEN IF ~ContainsKey(schema1.val, "type") THEN Panic
         ELSE IF ContainsKey(schema1.val, "properties")
                 /\ ContainsKey(schema2.val, "properties")
         THEN IF ~IsObject(schema1.val["properties"])
                 \/ ~IsObject(schema2.val["properties"])
              THEN Panic
              ELSE Object(("type" :> schema1.val["type"])
                          @@ ("properties" :>
                                Object(schema1.val["properties"].val
                                       @@ schema2.val["properties"].val)))
         ELSE Object("type" :> schema1.val["type"])
    ELSE OneOf(schema1, schema2)

\* merge_schemas: obj1["type"] and obj1["properties"] index a Map and panic on
\* a missing key; as_object().unwrap() panics on a value that is no object.
\* properties.insert over props1 chained with props2: props2 wins a collision.
merge_schemas(schema1, schema2) ==
    IF schema1 = schema2 THEN schema1
    ELSE IF IsObject(schema1) /\ IsObject(schema2)
            /\ Get(schema1.val, "type") = Get(schema2.val, "type")
    THEN IF ~ContainsKey(schema1.val, "type") THEN Panic
         ELSE IF ContainsKey(schema1.val, "properties")
                 /\ ContainsKey(schema2.val, "properties")
         THEN IF ~IsObject(schema1.val["properties"])
                 \/ ~IsObject(schema2.val["properties"])
              THEN Panic
              ELSE Object(("type" :> schema1.val["type"])
                          @@ ("properties" :>
                                Object(schema2.val["properties"].val
                                       @@ schema1.val["properties"].val)))
         ELSE Object("type" :> schema1.val["type"])
    ELSE OneOf(schema1, schema2)

\* for schema in schemas.iter().skip(1) { common = merge_schemas(&common, schema) }
fold_loop(c, s, i) ==
    IF c = Panic THEN Panic
    ELSE IF i > Len(s) THEN c
    ELSE fold_loop(merge_schemas(c, s[i]), s, i + 1)

\* the reduction started at the last schema and run towards the first
fold_loop_from_right(c, s, i) ==
    IF c = Panic THEN Panic
    ELSE IF i < 1 THEN c
    ELSE fold_loop_from_right(merge_schemas(c, s[i]), s, i - 1)

find_common_schema_from_right(s) ==
    IF s = <<>> THEN Object(EmptyMap)
    ELSE fold_loop_from_right(s[Len(s)], s, Len(s) - 1)

find_common_schema(s) ==
    IF s = <<>> THEN Object(EmptyMap)
    ELSE fold_loop(s[1], s, 2)

\* json!({"type": "array", "items": items})
ArraySchema(items) == Object(("type" :> String("array")) @@ ("items" :> items))

\* generate_array_schema with the empty array given the empty schema
generate_array_schema_empty_any(arr) ==
    IF arr = <<>> THEN Object(EmptyMap)
    ELSE LET item_schemas == [i \in 1..Len(arr) |-> generate_json_schema(arr[i])]
             common_schema == find_common_schema(item_schemas)
         IN  IF \E i \in 1..Len(arr) : item_schemas[i] = Panic THEN Panic
             ELSE IF common_schema = Panic THEN Panic
             ELSE ArraySchema(common_schema)

generate_array_schema(arr) ==
    IF arr = <<>> THEN ArraySchema(Object(EmptyMap))
    ELSE LET item_schemas == [i \in 1..Len(arr) |-> generate_json_schema(arr[i])]
             common_schema == find_common_schema(item_schemas)
         IN  IF \E i \in 1..Len(arr) : item_schemas[i] = Panic THEN Panic
             ELSE IF common_schema = Panic THEN Panic
             ELSE ArraySchema(common_schema)

\* the body of the loop over the members with no case for "$ref"
object_member_no_ref(s, key, value) ==
    LET sub_schema == generate_json_schema(value)
        stripped == IF IsObject(sub_schema)
                    THEN Object(Remove(sub_schema.val, "$schema"))
                    ELSE sub_schema
    IN  IF sub_schema = Panic THEN Panic
        ELSE IF ~IsObject(s.val["properties"]) \/ ~IsArray(s.val["required"])
        THEN Panic
        ELSE Object(Insert(Insert(s.val, "properties",
                                  Object(Insert(s.val["properties"].val, key, stripped))),
                           "required",
                           Array(Append(s.val["required"].val, String(key)))))

\* the body of for (key, value) in obj
object_member(s, key, value) ==
    IF key = "$ref" THEN Object(Insert(s.val, "$ref", value))
    ELSE LET sub_schema == generate_json_schema(value)
             stripped == IF IsObject(sub_schema)
                         THEN Object(Remove(sub_schema.val, "$schema"))
                         ELSE sub_schema
         IN  IF sub_schema = Panic THEN Panic
             ELSE IF ~IsObject(s.val["properties"]) \/ ~IsArray(s.val["required"])
             THEN Panic
             ELSE Object(Insert(Insert(s.val, "properties",
                                       Object(Insert(s.val["properties"].val, key, stripped))),
                                "required",
                                Array(Append(s.val["required"].val, String(key)))))

\* for (key, value) in obj, from member i on
object_loop(s, obj, i) ==
    IF s = Panic THEN Panic
    ELSE IF i > Len(obj) THEN s
    ELSE object_loop(object_member(s, obj[i].key, obj[i].value), obj, i + 1)

\* json!({"type": "object", "properties": {}, "required": []})
NewObjectSchema ==
    Object(("type" :> String("object"))
           @@ ("properties" :> Object(EmptyMap))
           @@ ("required" :> Array(<<>>)))

DialectUri == String("http://json-schema.org/draft-07/schema#")

\* generate_object_schema without the line that sets "$schema"
generate_object_schema_no_marker(inst) ==
    LET looped == IF IsObject(inst) THEN object_loop(NewObjectSchema, inst.val, 1)
                  ELSE NewObjectSchema
        required == IF IsArray(looped.val["required"])
                    THEN sort_required(looped.val["required"].val)
                    ELSE looped.val["required"]
    IN  IF looped = Panic THEN Panic
        ELSE IF required = Panic THEN Panic
        ELSE Object(Insert(looped.val, "required", required))

generate_object_schema(inst) ==
    LET looped == IF IsObject(inst) THEN object_loop(NewObjectSchema, inst.val, 1)
                  ELSE NewObjectSchema
        required == IF IsArray(looped.val["required"])
                    THEN sort_required(looped.val["required"].val)
                    ELSE looped.val["required"]
    IN  IF looped = Panic THEN Panic
        ELSE IF required = Panic THEN Panic
        ELSE Object(Insert(Insert(looped.val, "required", required),
                           "$schema", DialectUri))

TypeSchema(t) == Object("type" :> String(t))

\* generate_json_schema with is_u64 in the place of is_i64
generate_json_schema_is_u64(inst) ==
    CASE inst.kind = "Object" -> generate_object_schema(inst)
      [] inst.kind = "Array" -> generate_array_schema(inst.val)
      [] inst.kind = "String" -> TypeSchema("string")
      [] inst.kind = "Number" ->
            IF is_u64(inst.val) THEN TypeSchema("integer") ELSE TypeSchema("number")
      [] inst.kind = "Bool" -> TypeSchema("boolean")
      [] inst.kind = "Null" -> TypeSchema("null")

generate_json_schema(inst) ==
    CASE inst.kind = "Object" -> generate_object_schema(inst)
      [] inst.kind = "Array" -> generate_array_schema(inst.val)
      [] inst.kind = "String" -> TypeSchema("string")
      [] inst.kind = "Number" ->
            IF is_i64(inst.val) THEN TypeSchema("integer") ELSE TypeSchema("number")
      [] inst.kind = "Bool" -> TypeSchema("boolean")
      [] inst.kind = "Null" -> TypeSchema("null")

(***************************************************************************)
(* The inferencer compiled into the binary, src/src/main.rs.                *)
(***************************************************************************)
RECURSIVE cli_generate_json_schema(_)
RECURSIVE cli_generate_object_schema(_)
RECURSIVE cli_generate_array_schema(_)
RECURSIVE cli_object_loop(_, _, _)
RECURSIVE cli_fold_loop(_, _, _)

cli_merge_schemas(schema1, schema2) ==
    IF schema1 = schema2 THEN schema1
    ELSE IF IsObject(schema1) /\ IsObject(schema2)
            /\ Get(schema1.val, "type") = Get(schema2.val, "type")
    THEN IF ~ContainsKey(schema1.val, "type") THEN Panic
         ELSE IF ContainsKey(schema1.val, "properties")
                 /\ ContainsKey(schema2.val, "properties")
         THEN IF ~IsObject(schema1.val["properties"])
                 \/ ~IsObject(schema2.val["properties"])
              THEN Panic
              ELSE Object(("type" :> schema1.val["type"])
                          @@ ("properties" :>
                                Object(schema2.val["properties"].val
                                       @@ schema1.val["properties"].val)))
         ELSE Object("type" :> schema1.val["type"])
    ELSE OneOf(schema1, schema2)

cli_fold_loop(c, s, i) ==
    IF c = Panic THEN Panic
    ELSE IF i > Len(s) THEN c
    ELSE cli_fold_loop(cli_merge_schemas(c, s[i]), s, i + 1)

cli_find_common_schema(s) ==
    IF s = <<>> THEN Object(EmptyMap)
    ELSE cli_fold_loop(s[1], s, 2)

cli_generate_array_schema(arr) ==
    IF arr = <<>> THEN ArraySchema(Object(EmptyMap))
    ELSE LET item_schemas == [i \in 1..Len(arr) |-> cli_generate_json_schema(arr[i])]
             common_schema == cli_find_common_schema(item_schemas)
         IN  IF \E i \in 1..Len(arr) : item_schemas[i] = Panic THEN Panic
             ELSE IF common_schema = Panic THEN Panic
             ELSE ArraySchema(common_schema)

\* the body of for (key, value) in obj
cli_object_member(s, key, value) ==
    LET sub_schema == cli_generate_json_schema(value)
    IN  IF sub_schema = Panic THEN Panic
        ELSE IF ~IsObject(s.val["properties"]) \/ ~IsArray(s.val["required"])
        THEN Panic
        ELSE Object(Insert(Insert(s.val, "properties",
                                  Object(Insert(s.val["properties"].val, key, sub_schema))),
                           "required",
                           Array(Append(s.val["required"].val, String(key)))))

cli_object_loop(s, obj, i) ==
    IF s = Panic THEN Panic
    ELSE IF i > Len(obj) THEN s
    ELSE cli_object_loop(cli_object_member(s, obj[i].key, obj[i].value), obj, i + 1)

\* json!({"$schema": ..., "type": "object", "properties": {}, "required": []})
cli_NewObjectSchema == Object(Insert(NewObjectSchema.val, "$schema", DialectUri))

cli_generate_object_schema(inst) ==
    IF IsObject(inst) THEN cli_object_loop(cli_NewObjectSchema, inst.val, 1)
    ELSE cli_NewObjectSchema

cli_generate_json_schema(inst) ==
    CASE inst.kind = "Object" -> cli_generate_object_schema(inst)
      [] inst.kind = "Array" -> cli_generate_array_schema(inst.val)
      [] inst.kind = "String" -> TypeSchema("string")
      [] inst.kind = "Number" ->
            IF is_i64(inst.val) THEN TypeSchema("integer") ELSE TypeSchema("number")
      [] inst.kind = "Bool" -> TypeSchema("boolean")
      [] inst.kind = "Null" -> TypeSchema("null")

(***************************************************************************)
(* The instances: every scalar of Scalars, and every tree of at most        *)
(* MaxNodes nodes with leaves of Leaves and member keys of Keys.            *)
(***************************************************************************)
One == Number(PosInt(<<0, 0, 0, 1>>))

Two == String("two")

\* 3.0
Three == Number(Float(<<16392, 0, 0, 0>>))

Leaves == {One, Two, Three}

Scalars ==
    Leaves \cup
    { Null, Bool(TRUE), Bool(FALSE), String(""),
      Number(PosInt(<<0, 0, 0, 0>>)),
      Number(PosInt(<<0, 0, 0, 42>>)),
      \* 2^63 - 1, 2^63, 2^64 - 1
      Number(PosInt(<<32767, 65535, 65535, 65535>>)),
      Number(PosInt(<<32768, 0, 0, 0>>)),
      Number(PosInt(<<65535, 65535, 65535, 65535>>)),
      \* -1, -2^63
      Number(NegInt(<<65535, 65535, 65535, 65535>>)),
      Number(NegInt(<<32768, 0, 0, 0>>)),
      \* 3.14, 9223372036854775808.0, -0.0
      Number(Float(<<16393, 7864, 20971, 34079>>)),
      Number(Float(<<17376, 0, 0, 0>>)),
      Number(Float(<<32768, 0, 0, 0>>)) }

RECURSIVE Trees(_)

\* the trees of exactly n nodes, from the table t of the smaller ones
ValuesOf(t, n) ==
    (IF n = 1 THEN Leaves ELSE {})
    \cup {Array(s) : s \in t.seqs[n]}
    \cup {Object(m) : m \in t.members[n][Keys]}

\* the sequences of trees of n nodes in all
SeqsOf(t, values, n) ==
    UNION { {<<v>> \o s : v \in values[k], s \in t.seqs[n - k + 1]} : k \in 1..n }

\* the member lists with distinct keys of ks and values of n nodes in all
MembersOf(t, values, n, ks) ==
    UNION { {<<[key |-> k, value |-> v]>> \o m :
                v \in values[j], m \in t.members[n - j + 1][ks \ {k}]} :
            k \in ks, j \in 1..n }

\* the table of the trees of 1..n nodes (values[i]) and of the sequences and
\* member lists of 0..n nodes in all (seqs[i + 1], members[i + 1][ks])
Trees(n) ==
    IF n = 0
    THEN [values |-> <<>>,
          seqs |-> << {<<>>} >>,
          members |-> << [ks \in SUBSET Keys |-> {<<>>}] >>]
    ELSE LET t == Trees(n - 1)
             values == Append(t.values, ValuesOf(t, n))
         IN  [values |-> values,
              seqs |-> Append(t.seqs, SeqsOf(t, values, n)),
              members |-> Append(t.members,
                                 [ks \in SUBSET Keys |-> MembersOf(t, values, n, ks)])]

Instances ==
    LET t == Trees(MaxNodes - 1)
    IN  Scalars \cup UNION {t.values[n] : n \in 1..(MaxNodes - 1)}
                \cup ValuesOf(t, MaxNodes)

(***************************************************************************)
(* The schemas handed to find_common_schema and merge_schemas directly, as  *)
(* the unit tests do.                                                      *)
(***************************************************************************)
SchemaPool ==
    { TypeSchema("string"),
      TypeSchema("integer"),
      TypeSchema("object"),
      Object(EmptyMap),
      ArraySchema(Object(EmptyMap)),
      ArraySchema(TypeSchema("integer")),
      Object(("type" :> String("object"))
             @@ ("properties" :> Object("a" :> TypeSchema("string")))),
      Object(("type" :> String("object"))
             @@ ("properties" :> Object("b" :> TypeSchema("integer")))),
      generate_json_schema(Object(<<[key |-> "a", value |-> One]>>)),
      OneOf(TypeSchema("string"), TypeSchema("integer")) }

RECURSIVE SchemaVectors(_)
\* the vectors of n schemas of the pool
SchemaVectors(n) ==
    IF n = 0 THEN {<<>>}
    ELSE {Append(v, s) : v \in SchemaVectors(n - 1), s \in SchemaPool}

(***************************************************************************)
(* Specification Spec: one instance, inferred by the library and by the     *)
(* binary.                                                                 *)
(***************************************************************************)
Init ==
    /\ instance \in Instances
    /\ schema = Unset
    /\ pc = "start"
    /\ cli_schema = Unset
    /\ cli_pc = "start"
    /\ schemas = <<>>
    /\ common = Unset
    /\ idx = 0

\* lib.rs: generate_json_schema(&instance)
Generate ==
    /\ pc = "start"
    /\ schema' = generate_json_schema(instance)
    /\ pc' = "done"
    /\ UNCHANGED <<instance, cli_schema, cli_pc, schemas, common, idx>>

\* main.rs: let schema = generate_json_schema(&json_value)
CliGenerate ==
    /\ cli_pc = "start"
    /\ cli_schema' = cli_generate_json_schema(instance)
    /\ cli_pc' = "done"
    /\ UNCHANGED <<instance, schema, pc, schemas, common, idx>>

Next == Generate \/ CliGenerate

Spec == Init /\ [][Next]_vars

(***************************************************************************)
(* Specification FoldSpec: find_common_schema on a vector of schemas, one   *)
(* iteration of its loop per step.                                          *)
(***************************************************************************)
FoldInit ==
    /\ instance = Null
    /\ schema = Unset
    /\ pc = "idle"
    /\ cli_schema = Unset
    /\ cli_pc = "idle"
    /\ schemas \in UNION {SchemaVectors(n) : n \in 0..MaxSchemas}
    /\ common = Unset
    /\ idx = 0

\* if schemas.is_empty() { return json!({}) }; let mut common = schemas[0].clone()
FoldStart ==
    /\ idx = 0
    /\ common' = IF schemas = <<>> THEN Object(EmptyMap) ELSE schemas[1]
    /\ idx' = IF schemas = <<>> THEN 1 ELSE 2
    /\ UNCHANGED <<instance, schema, pc, cli_schema, cli_pc, schemas>>

\* common = merge_schemas(&common, schema)
FoldStep ==
    /\ idx >= 2
    /\ idx <= Len(schemas)
    /\ common # Panic
    /\ common' = merge_schemas(common, schemas[idx])
    /\ idx' = idx + 1
    /\ UNCHANGED <<instance, schema, pc, cli_schema, cli_pc, schemas>>

FoldNext == FoldStart \/ FoldStep

FoldSpec == FoldInit /\ [][FoldNext]_vars

(***************************************************************************)
(* Vocabulary of the claims.                                               *)
(***************************************************************************)
\* the sub-schemas a schema node holds: the values of properties, items, and
\* the alternatives of oneOf
Children(s) ==
    IF ~IsObject(s) THEN {}
    ELSE (IF ContainsKey(s.val, "properties") /\ IsObject(s.val["properties"])
          THEN {s.val["properties"].val[k] : k \in DOMAIN s.val["properties"].val}
          ELSE {})
         \cup (IF ContainsKey(s.val, "items") THEN {s.val["items"]} ELSE {})
         \cup (IF ContainsKey(s.val, "oneOf") /\ IsArray(s.val["oneOf"])
               THEN {s.val["oneOf"].val[i] : i \in 1..Len(s.val["oneOf"].val)}
               ELSE {})

RECURSIVE Nodes(_)
\* a schema node and every node nested in it, at any depth
Nodes(s) == {s} \cup UNION {Nodes(c) : c \in Children(s)}

\* the nodes strictly below the root
NestedNodes(s) == UNION {Nodes(c) : c \in Children(s)}

HasMarker(s) == IsObject(s) /\ ContainsKey(s.val, "$schema")

\* the keys of an instance object, in iteration order
MemberKeys(inst) == [i \in 1..Len(inst.val) |-> inst.val[i].key]

PropertyKeys(inst) == {inst.val[i].key : i \in 1..Len(inst.val)} \ {"$ref"}

\* raw byte order of two keys
KeyLess(a, b) == BytesLess(KeyBytes(a), KeyBytes(b), 1)

IsScalar(v) == v.kind \in {"Null", "Bool", "Number", "String"}

\* the `type` of a schema node as an Option
TypeOf(s) == Get(s.val, "type")

(***************************************************************************)
(* C1: the dialect marker $schema is on the outermost schema node exactly   *)
(* when the top-level instance is an object, and on no nested schema node    *)
(* (under properties, as items, as a oneOf alternative), at any depth.       *)
(***************************************************************************)
C1_MarkerOnlyAtRoot ==
    pc = "done" =>
        /\ HasMarker(schema) <=> IsObject(instance)
        /\ \A n \in NestedNodes(schema) : ~HasMarker(n)

(***************************************************************************)
(* C2: for an object instance, required holds exactly the keys other than   *)
(* $ref, each once, in ascending byte order, and properties has exactly one  *)
(* entry per such key.                                                      *)
(***************************************************************************)
C2_RequiredSortedExact ==
    (pc = "done" /\ IsObject(instance)) =>
        /\ IsObject(schema)
        /\ Get(schema.val, "type") = <<String("object")>>
        /\ ContainsKey(schema.val, "required")
        /\ ContainsKey(schema.val, "properties")
        /\ LET required == schema.val["required"].val
               properties == schema.val["properties"].val
           IN  /\ \A i \in 1..Len(required) : required[i].kind = "String"
               /\ {required[i].val : i \in 1..Len(required)} = PropertyKeys(instance)
               /\ Len(required) = Cardinality(PropertyKeys(instance))
               /\ \A i \in 1..Len(required) : \A j \in 1..Len(required) :
                      i < j => KeyLess(required[i].val, required[j].val)
               /\ DOMAIN properties = PropertyKeys(instance)

\* an object iterated as a, B (descending bytes) whose required came out B, a
C2_Witness ==
    /\ pc = "done"
    /\ IsObject(instance)
    /\ \E i \in 1..Len(instance.val) : \E j \in 1..Len(instance.val) :
          i < j /\ instance.val[i].key = "a" /\ instance.val[j].key = "B"
    /\ schema.val["required"] = Array(<<String("B"), String("a")>>)

(***************************************************************************)
(* C3: an object instance with a key $ref yields a schema whose $ref is the *)
(* instance's value verbatim, with $ref neither in properties nor in         *)
(* required; an object instance without it yields a schema without $ref.     *)
(***************************************************************************)
C3_RefPassthrough ==
    (pc = "done" /\ IsObject(instance)) =>
        /\ IsObject(schema)
        /\ \A i \in 1..Len(instance.val) :
              instance.val[i].key = "$ref" =>
                  /\ Get(schema.val, "$ref") = <<instance.val[i].value>>
                  /\ ContainsKey(schema.val, "properties")
                  /\ ~ContainsKey(schema.val["properties"].val, "$ref")
                  /\ ContainsKey(schema.val, "required")
                  /\ \A j \in 1..Len(schema.val["required"].val) :
                        schema.val["required"].val[j] # String("$ref")
        /\ (\A i \in 1..Len(instance.val) : instance.val[i].key # "$ref")
              => ~ContainsKey(schema.val, "$ref")

\* {"a": .., "$ref": 1}: the number is copied, not inferred
C3_Witness ==
    /\ pc = "done"
    /\ IsObject(instance)
    /\ Len(instance.val) = 2
    /\ instance.val[1].key = "a"
    /\ instance.val[2] = [key |-> "$ref", value |-> One]
    /\ schema.val["$ref"] = One
    /\ schema.val["required"] = Array(<<String("a")>>)

\* an integer of the signed 64-bit range: a u64 below 2^63, or any i64
HeldAsI64(n) ==
    \/ n.n = "PosInt" /\ n.bits[1] < 32768
    \/ n.n = "NegInt"

(***************************************************************************)
(* C4: a scalar instance yields exactly {type: t}: string, boolean, null,    *)
(* and for a number integer iff it is held as an integer (PosInt, NegInt) of *)
(* value at most 2^63 - 1, otherwise number.                                 *)
(***************************************************************************)
C4_ScalarType ==
    (pc = "done" /\ IsScalar(instance)) =>
        schema = TypeSchema(CASE instance.kind = "String" -> "string"
                              [] instance.kind = "Bool" -> "boolean"
                              [] instance.kind = "Null" -> "null"
                              [] instance.kind = "Number" ->
                                    IF HeldAsI64(instance.val) THEN "integer"
                                    ELSE "number")

\* 2^63 held as PosInt is a number
C4_Witness ==
    /\ pc = "done"
    /\ instance = Number(PosInt(<<32768, 0, 0, 0>>))
    /\ schema = TypeSchema("number")

(***************************************************************************)
(* C5: generate_json_schema never fails: no unwrap and no Map index          *)
(* panics, whatever the nesting and the mix of the elements of an array.     *)
(***************************************************************************)
C5_NeverPanics ==
    pc = "done" => (IsObject(schema) /\ \A n \in Nodes(schema) : IsObject(n))

\* an array of a scalar, an array and an object: the second merge gets a
\* oneOf without type as schema1
C5_Witness ==
    /\ pc = "done"
    /\ IsArray(instance)
    /\ Len(instance.val) = 3
    /\ {instance.val[i].kind : i \in 1..3} = {"Number", "Array", "Object"}
    /\ IsObject(schema)
    /\ ContainsKey(schema.val["items"].val, "oneOf")
    /\ ContainsKey(schema.val["items"].val["oneOf"].val[1].val, "oneOf")

RECURSIVE LeftReduction(_)
\* merge(..merge(merge(s[1], s[2]), s[3]).., s[n])
LeftReduction(s) ==
    IF Len(s) = 1 THEN s[1]
    ELSE merge_schemas(LeftReduction(SubSeq(s, 1, Len(s) - 1)), s[Len(s)])

(***************************************************************************)
(* C6: items of a non-empty array is the left-to-right pairwise reduction    *)
(* merge(..merge(merge(s0, s1), s2).., sn) of the elements' schemas; three    *)
(* elements whose merges fall back give {oneOf: [{oneOf: [a, b]}, c]}.        *)
(***************************************************************************)
C6_ItemsLeftFold ==
    (pc = "done" /\ IsArray(instance) /\ instance.val # <<>>) =>
        LET s == [i \in 1..Len(instance.val) |-> generate_json_schema(instance.val[i])]
        IN  /\ schema = ArraySchema(LeftReduction(s))
            /\ (Len(s) = 3 /\ TypeOf(s[1]) # TypeOf(s[2]))
                  => schema = ArraySchema(OneOf(OneOf(s[1], s[2]), s[3]))

\* test_generate_array_schema_mixed_types: [1, "two", 3.0]
C6_Witness ==
    /\ pc = "done"
    /\ instance = Array(<<One, Two, Three>>)
    /\ schema = ArraySchema(OneOf(OneOf(TypeSchema("integer"), TypeSchema("string")),
                                  TypeSchema("number")))

(***************************************************************************)
(* C7: merging two schemas whose type fields differ (one of them may have    *)
(* none) gives exactly {oneOf: [s1, s2]}, s1 first, both unchanged.           *)
(***************************************************************************)
C7_DifferentTypesOneOf ==
    [][ (idx >= 2 /\ idx' = idx + 1
         /\ IsObject(common) /\ IsObject(schemas[idx])
         /\ TypeOf(common) # TypeOf(schemas[idx]))
        => common' = OneOf(common, schemas[idx]) ]_vars

\* a oneOf of two types, without type, merged with a third typed schema
C7_Witness ==
    /\ idx = 4
    /\ TypeOf(schemas[1]) # <<>>
    /\ TypeOf(schemas[2]) # <<>>
    /\ TypeOf(schemas[1]) # TypeOf(schemas[2])
    /\ TypeOf(schemas[3]) # <<>>
    /\ common = OneOf(OneOf(schemas[1], schemas[2]), schemas[3])

(***************************************************************************)
(* C8: every schema node of type array in the output has items; the empty    *)
(* array gives exactly {type: array, items: {}}.                             *)
(***************************************************************************)
C8_ArrayNodesHaveItems ==
    pc = "done" =>
        /\ \A n \in Nodes(schema) :
              (IsObject(n) /\ TypeOf(n) = <<String("array")>>)
                  => ContainsKey(n.val, "items")
        /\ instance = Array(<<>>) => schema = ArraySchema(Object(EmptyMap))

(***************************************************************************)
(* C9: merging two unequal schemas with the same type gives a node with      *)
(* that type, with properties iff both have one, holding every key of both   *)
(* with s2's sub-schema unchanged on a collision, and without required.      *)
(***************************************************************************)
C9_SameTypeShallowMerge ==
    [][ (idx >= 2 /\ idx' = idx + 1
         /\ IsObject(common) /\ IsObject(schemas[idx])
         /\ common # schemas[idx]
         /\ TypeOf(common) # <<>>
         /\ TypeOf(common) = TypeOf(schemas[idx]))
        => /\ IsObject(common')
           /\ TypeOf(common') = TypeOf(common)
           /\ DOMAIN common'.val \subseteq {"type", "properties"}
           /\ ContainsKey(common'.val, "properties")
                 <=> (ContainsKey(common.val, "properties")
                      /\ ContainsKey(schemas[idx].val, "properties"))
           /\ ContainsKey(common'.val, "properties") =>
                 LET p == common'.val["properties"].val
                     p1 == common.val["properties"].val
                     p2 == schemas[idx].val["properties"].val
                 IN  /\ DOMAIN p = DOMAIN p1 \cup DOMAIN p2
                     /\ \A k \in DOMAIN p2 : p[k] = p2[k]
                     /\ \A k \in (DOMAIN p1) \ (DOMAIN p2) : p[k] = p1[k] ]_vars

\* {a: string} merged with the schema of {"a": 1}: a collides, s2's wins
C9_Witness ==
    /\ idx = 3
    /\ schemas[1] = Object(("type" :> String("object"))
                           @@ ("properties" :> Object("a" :> TypeSchema("string"))))
    /\ schemas[2] = generate_json_schema(Object(<<[key |-> "a", value |-> One]>>))
    /\ common = Object(("type" :> String("object"))
                       @@ ("properties" :> Object("a" :> TypeSchema("integer"))))

RECURSIVE Plain(_)
\* no $ref key, no object as the direct value of a property, keys ascending
Plain(v) ==
    CASE v.kind = "Array" -> \A i \in 1..Len(v.val) : Plain(v.val[i])
      [] v.kind = "Object" ->
            /\ \A i \in 1..Len(v.val) :
                  /\ v.val[i].key # "$ref"
                  /\ ~IsObject(v.val[i].value)
                  /\ Plain(v.val[i].value)
            /\ \A i \in 1..Len(v.val) : \A j \in 1..Len(v.val) :
                  i < j => KeyLess(v.val[i].key, v.val[j].key)
      [] OTHER -> TRUE

(***************************************************************************)
(* C10: the binary's inferencer and the library's return equal schemas for   *)
(* every instance with no $ref key, no object that is the direct value of a  *)
(* property, and keys iterated in ascending order; a top-level object that    *)
(* breaks one of the three gets different schemas.                           *)
(***************************************************************************)
C10_CliAgreesOnPlain ==
    (pc = "done" /\ cli_pc = "done") =>
        /\ Plain(instance) => schema = cli_schema
        /\ (IsObject(instance)
            /\ \/ \E i \in 1..Len(instance.val) :
                     \/ instance.val[i].key = "$ref"
                     \/ IsObject(instance.val[i].value)
               \/ \E i \in 1..Len(instance.val) : \E j \in 1..Len(instance.val) :
                     i < j /\ KeyLess(instance.val[j].key, instance.val[i].key))
              => schema # cli_schema

\* [{"B": .., "a": ..}]: an object in an array, keys ascending
C10_Witness ==
    /\ pc = "done"
    /\ cli_pc = "done"
    /\ Plain(instance)
    /\ IsArray(instance)
    /\ Len(instance.val) = 1
    /\ IsObject(instance.val[1])
    /\ Len(instance.val[1].val) = 2
    /\ schema = cli_schema
    /\ HasMarker(schema.val["items"])

====
